---- MODULE Spec2Model ----
(***************************************************************************)
(* A model of FasterSpecFit: the banded resolution matrix (sparse_rep.py), *)
(* the run-length sparse Jacobian products (sparse_rep.py), the binned     *)
(* Gaussian-integral model and Jacobian builders, the objective and the    *)
(* bin-edge derivation (emlines_sparse_custom.py).                         *)
(*                                                                         *)
(* Arrays are functions over 0..len-1, indexed as in the source.  Floating *)
(* point numbers are exact rationals <<n, d>> (d > 0, lowest terms) where  *)
(* the code divides, and integers elsewhere.                               *)
(***************************************************************************)
EXTENDS Integers, Sequences, FiniteSets, TLC

\* ------------------------------------------------------------------------
\* Arrays indexed from 0
\* ------------------------------------------------------------------------

Len0(a) == Cardinality(DOMAIN a)

Arrays(n, S) == [0..(n - 1) -> S]

Max2(a, b) == IF a >= b THEN a ELSE b

Min2(a, b) == IF a <= b THEN a ELSE b

\* ------------------------------------------------------------------------
\* Exact rationals <<n, d>>, d > 0, in lowest terms, for float64 values;
\* <<1, 0>>, <<-1, 0>> and <<0, 0>> for inf, -inf and nan
\* ------------------------------------------------------------------------

Abs(x) == IF x < 0 THEN -x ELSE x

RECURSIVE GCD(_, _)
GCD(a, b) == IF b = 0 THEN a ELSE GCD(b, a % b)

Sign(x) == IF x < 0 THEN -1 ELSE IF x > 0 THEN 1 ELSE 0

\* n / d; a division by 0 gives inf <<1, 0>>, -inf <<-1, 0>> or nan <<0, 0>>,
\* as numpy's array division does
Q(n, d) ==
    LET g == GCD(Abs(n), Abs(d))
    IN  IF d = 0 THEN <<Sign(n), 0>>
        ELSE IF d < 0 THEN <<(-n) \div g, (-d) \div g>>
        ELSE <<n \div g, d \div g>>

QInt(n) == <<n, 1>>

QAdd(a, b) ==
    LET g == GCD(a[2], b[2])
    IN  IF a[2] = 0 /\ b[2] = 0 THEN (IF a[1] = b[1] THEN a ELSE <<0, 0>>)
        ELSE IF a[2] = 0 THEN a
        ELSE IF b[2] = 0 THEN b
        ELSE Q(a[1] * (b[2] \div g) + b[1] * (a[2] \div g), (a[2] \div g) * b[2])

QNeg(a) == <<-a[1], a[2]>>

QSub(a, b) == QAdd(a, QNeg(b))

QMul(a, b) ==
    LET g1 == GCD(Abs(a[1]), b[2])
        g2 == GCD(Abs(b[1]), a[2])
    IN  IF a[2] = 0 \/ b[2] = 0 THEN <<Sign(a[1]) * Sign(b[1]), 0>>
        ELSE Q((a[1] \div g1) * (b[1] \div g2), (a[2] \div g2) * (b[2] \div g1))

QLess(a, b) == a[1] * b[2] < b[1] * a[2]

QLeq(a, b) == a[1] * b[2] <= b[1] * a[2]

QAbs(a) == <<Abs(a[1]), a[2]>>

QInv(a) == Q(a[2], a[1])

QDiv(a, b) == QMul(a, QInv(b))

\* int(a): truncation towards zero
QTrunc(a) == IF a[1] >= 0 THEN a[1] \div a[2] ELSE -((-a[1]) \div a[2])

\* floor(2 * |a|): the half-unit step a lies in
HalfSteps(a) == (2 * Abs(a[1])) \div a[2]

\* ------------------------------------------------------------------------
\* State: the arguments, results and position of one call of each component
\* ------------------------------------------------------------------------

\* ResMatrix (sparse_rep.py)
VARIABLES
    rm_D,       \* ResMatrix.__init__'s argument D, ndiag x nrow
    rm_data,    \* self.data, nrow x ndiag (<<>> before construction)
    rm_v,       \* matvec's input vector
    rm_w,       \* matvec's output parameter
    rm_pc       \* "new", "built", "done"

rmVars == <<rm_D, rm_data, rm_v, rm_w, rm_pc>>

\* centers_to_edges (emlines_sparse_custom.py)
VARIABLES
    ce_centers,    \* centers
    ce_camerapix,  \* camerapix: per camera <<s, e>>
    ce_edges,      \* edges, np.empty(len(centers) + ncameras)
    ce_icam,       \* the camera the for loop is at
    ce_pc          \* "loop", "IndexError", "returned" ("off": not called)

ceVars == <<ce_centers, ce_camerapix, ce_edges, ce_icam, ce_pc>>

\* EMLineJacobian's products with one camera's fragment (sparse_rep.py)
VARIABLES
    op_J,       \* the fragment J = [starts, ends, values], one run per column
    op_vFull,   \* _matvec_J's v: the full-parameter vector self.vFull
    op_u,       \* _rmatvec_J's v: the bin vector v[s:e]
    op_nbins,   \* e - s, the length of the view w[s:e] (s = 0)
    op_w,       \* _matvec's w, np.empty(nBins): rows 0..e-s-1 are w[s:e]
    op_wT,      \* _rmatvec_J's w: self.vFull, np.empty(nParms)
    op_stray,   \* indices _matvec_J wrote that lie in no row of w
    op_fwd,     \* "todo", "done" ("off": not called)
    op_bwd      \* "todo", "done" ("off": not called)

opVars == <<op_J, op_vFull, op_u, op_nbins, op_w, op_wT, op_stray, op_fwd, op_bwd>>

\* the arguments shared by build_emline_model and build_emline_model_jacobian
\* (emlines_sparse_custom.py), for one camera
VARIABLES
    parameters,         \* amplitudes, velocity shifts, sigmas: 3 * nlines
    obs_bin_edges,      \* the camera's bin edges
    log_obs_bin_edges,  \* their logarithms
    redshift,
    line_wavelengths,
    obs_weights         \* per bin, for the Jacobian

inVars == <<parameters, obs_bin_edges, log_obs_bin_edges, redshift,
            line_wavelengths, obs_weights>>

\* build_emline_model
VARIABLES
    em_j,             \* the line the for loop is at
    em_window,        \* <<lo, hi, "continue" or "added">> of each line the loop has been through
    em_model_fluxes,  \* model_fluxes, np.zeros(nbins + 2)
    em_past,          \* the float read behind ibin_width (<<>>: not read yet)
    em_result,        \* the returned model_fluxes[1:-1] (<<>> before)
    em_pc             \* "loop", "returned", "ZeroDivisionError", "ValueError",
                      \* "undefined" ("off": not called)

emVars == <<em_j, em_window, em_model_fluxes, em_past, em_result, em_pc>>

\* build_emline_model_jacobian
VARIABLES
    jb_j,       \* the line the for loop is at
    jb_window,  \* <<lo, hi, "continue" or "stored">> of each line gone through
    jb_starts,  \* starts, np.zeros(nlines)
    jb_ends,    \* ends, np.zeros(nlines)
    jb_dd,      \* dd, np.empty((3 * nlines, max_width))
    jb_empty,   \* what the memory np.empty hands out holds
    jb_past,    \* the float read behind w (<<>>: not read yet)
    jb_pc       \* "call", "loop", "returned" ("off": not called)

jbVars == <<jb_j, jb_window, jb_starts, jb_ends, jb_dd, jb_empty, jb_past, jb_pc>>

\* _objective, called again and again by the optimizer
VARIABLES
    ob_args,        \* the fixed arguments of the calls, by name
    ob_parameters,  \* the `parameters` buffer the calls share
    ob_free,        \* free_parameters of the last call
    ob_residuals,   \* the residuals it returned
    ob_seen,        \* <<free_parameters, residuals>> of every call so far
    ob_calls        \* the number of calls so far

obVars == <<ob_args, ob_parameters, ob_free, ob_residuals, ob_seen, ob_calls>>

vars == <<rmVars, ceVars, opVars, inVars, emVars, jbVars, obVars>>

\* ------------------------------------------------------------------------
\* ResMatrix (sparse_rep.py)
\* ------------------------------------------------------------------------

\* Largest number of rows of a resolution matrix.
MaxRow == 3

\* Numbers of diagonals of the stacked-diagonal input (odd).
NDiags == {1, 3}

\* Entries of D, and entries of v.
DVals == {0, 1}

VVals == {1, 2}

\* What a slot of an np.empty array may hold before it is written.
Garbage == {-3, 5}

\* The slots (i, k) of A that the loops of _from_dia_matrix write: k = j - i + hdiag
\* for a column j in jmin..jmax of row i.
rm_written(ndiag, nrow) ==
    LET hdiag == ndiag \div 2
    IN  {s \in (0..(nrow - 1)) \X (0..(ndiag - 1)) :
            LET j == s[2] + s[1] - hdiag
            IN  /\ j >= Max2(s[1] - hdiag, 0)
                /\ j <= Min2(s[1] + hdiag, nrow - 1)}

rm_unwritten(ndiag, nrow) ==
    ((0..(nrow - 1)) \X (0..(ndiag - 1))) \ rm_written(ndiag, nrow)

\* A[i, j - i + hdiag] = D[hdiag + i - j, j] for j in jmin..jmax; every other
\* slot keeps what np.empty left there (E, a function on the unwritten slots).
from_dia_matrix_flipped(D, E) ==
    LET ndiag == Len0(D)
        nrow  == Len0(D[0])
        hdiag == ndiag \div 2
    IN  [i \in 0..(nrow - 1) |->
            [k \in 0..(ndiag - 1) |->
                LET j == k + i - hdiag
                IN  IF <<i, k>> \in rm_written(ndiag, nrow)
                    THEN D[hdiag + j - i][j]
                    ELSE E[<<i, k>>]]]

from_dia_matrix(D, E) ==
    LET ndiag == Len0(D)
        nrow  == Len0(D[0])
        hdiag == ndiag \div 2
    IN  [i \in 0..(nrow - 1) |->
            [k \in 0..(ndiag - 1) |->
                LET j == k + i - hdiag
                IN  IF <<i, k>> \in rm_written(ndiag, nrow)
                    THEN D[hdiag + i - j][j]
                    ELSE E[<<i, k>>]]]

\* acc += M[i, j - i + hdiag] * v[j] for j in j..jmax
RECURSIVE rm_acc(_, _, _, _, _, _)
rm_acc(M, v, i, hdiag, j, jmax) ==
    IF j > jmax THEN 0
    ELSE M[i][j - i + hdiag] * v[j] + rm_acc(M, v, i, hdiag, j + 1, jmax)

rm_matvec(M, v, w) ==
    LET nrow  == Len0(M)
        ndiag == Len0(M[0])
        hdiag == ndiag \div 2
    IN  [i \in DOMAIN w |->
            IF i \in 0..(nrow - 1)
            THEN rm_acc(M, v, i, hdiag,
                   Max2(i - hdiag, 0), Min2(i + hdiag, nrow - 1))
            ELSE w[i]]

RmInit ==
    /\ \E ndiag \in NDiags, nrow \in 1..MaxRow :
          /\ rm_D \in Arrays(ndiag, Arrays(nrow, DVals))
          /\ rm_v \in Arrays(nrow, VVals)
          /\ \E g \in Garbage : rm_w = [i \in 0..(nrow - 1) |-> g]
    /\ rm_data = <<>>
    /\ rm_pc = "new"

\* ResMatrix.__init__: self.data = self._from_dia_matrix(D)
RmConstruct ==
    /\ rm_pc = "new"
    /\ \E E \in [rm_unwritten(Len0(rm_D), Len0(rm_D[0])) -> Garbage] :
          rm_data' = from_dia_matrix(rm_D, E)
    /\ rm_pc' = "built"
    /\ UNCHANGED <<rm_D, rm_v, rm_w, ceVars, opVars, inVars, emVars, jbVars, obVars>>

\* ResMatrix.matvec(v, w)
RmMatvec ==
    /\ rm_pc = "built"
    /\ rm_w' = rm_matvec(rm_data, rm_v, rm_w)
    /\ rm_pc' = "done"
    /\ UNCHANGED <<rm_D, rm_data, rm_v, ceVars, opVars, inVars, emVars, jbVars, obVars>>

RmNext == RmConstruct \/ RmMatvec

\* C1: after ResMatrix(D).matvec(v, w), every row i of w holds the sum over the
\* columns j in [max(0, i-hdiag), min(nrow-1, i+hdiag)] of D[hdiag+i-j, j] * v[j],
\* whatever the never-written slots of the row-banded array hold; and for D
\* the identity in stacked-diagonal form, w equals v.
RECURSIVE SumOver(_, _)
SumOver(S, f) ==
    IF S = {} THEN 0
    ELSE LET x == CHOOSE y \in S : TRUE IN f[x] + SumOver(S \ {x}, f)

C1_IsIdentity ==
    \A d \in DOMAIN rm_D : \A j \in DOMAIN rm_D[d] :
        rm_D[d][j] = IF d = Len0(rm_D) \div 2 THEN 1 ELSE 0

C1_MatvecIsBandedProduct ==
    rm_pc = "done" =>
        LET ndiag == Len0(rm_D)
            nrow  == Len0(rm_D[0])
            hdiag == ndiag \div 2
        IN  /\ \A i \in 0..(nrow - 1) :
                  LET cols == {j \in 0..(nrow - 1) : j >= i - hdiag /\ j <= i + hdiag}
                  IN  rm_w[i] =
                        SumOver(cols, [j \in cols |-> rm_D[hdiag + i - j][j] * rm_v[j]])
            /\ C1_IsIdentity => rm_w = rm_v

\* A product over a clipped band with uninitialised slots: 3 diagonals, at
\* least 2 rows, a result that differs from v.
C1_Witness ==
    /\ rm_pc = "done"
    /\ Len0(rm_D) = 3
    /\ Len0(rm_D[0]) >= 2
    /\ rm_w # rm_v
    /\ \E i \in DOMAIN rm_w : rm_w[i] > 2

\* ------------------------------------------------------------------------
\* centers_to_edges (emlines_sparse_custom.py)
\* ------------------------------------------------------------------------

\* Largest number of bin centers, and of cameras.
MaxCenters == 5

MaxCams == 2

\* Values of bin centers.
CenterVals == 0..3

\* camerapix arrays that cut range(n) into ncam consecutive segments [s, e),
\* segments of 0 or 1 centers included.
RECURSIVE CameraPixFrom(_, _, _)
CameraPixFrom(s, n, ncam) ==
    IF ncam = 1 THEN {<<<<s, n>>>>}
    ELSE UNION {{<<<<s, e>>>> \o rest : rest \in CameraPixFrom(e, n, ncam - 1)} :
                e \in s..n}

CameraPix(n) ==
    UNION {{[i \in 0..(k - 1) |-> c[i + 1]] : c \in CameraPixFrom(0, n, k)} :
           k \in 1..MaxCams}

\* a[lo:hi] for 0 <= lo: numpy clips the slice to the array
Slice0(a, lo, hi) ==
    LET h == Min2(hi, Len0(a))
    IN  [i \in 0..(h - lo - 1) |-> a[lo + i]]

\* where camera icam's edges start in the edges array
ce_dest_no_icam(s, icam) == s

ce_dest(s, icam) == s + icam

\* int_edges = 0.5 * (icenters[:-1] + icenters[1:])
ce_int_edges(icenters) ==
    [i \in 0..(Len0(icenters) - 2) |->
        QMul(Q(1, 2), QInt(icenters[i] + icenters[i + 1]))]

\* edge_l = icenters[0] - (icenters[1] - int_edges[0])
ce_edge_l(icenters) ==
    QSub(QInt(icenters[0]), QSub(QInt(icenters[1]), ce_int_edges(icenters)[0]))

\* edge_r = icenters[-1] + (icenters[-1] - int_edges[-1])
ce_edge_r(icenters) ==
    LET n == Len0(icenters)
    IN  QAdd(QInt(icenters[n - 1]),
             QSub(QInt(icenters[n - 1]), ce_int_edges(icenters)[n - 2]))

\* np.hstack((edge_l, int_edges, edge_r))
ce_hstack(icenters) ==
    LET n == Len0(icenters)
    IN  [k \in 0..n |->
            IF k = 0 THEN ce_edge_l(icenters)
            ELSE IF k = n THEN ce_edge_r(icenters)
            ELSE ce_int_edges(icenters)[k - 1]]

CeInit ==
    /\ \E n \in 0..MaxCenters :
          /\ ce_centers \in Arrays(n, CenterVals)
          /\ ce_camerapix \in CameraPix(n)
          /\ \E g \in Garbage :
                ce_edges = [i \in 0..(n + Len0(ce_camerapix) - 1) |-> QInt(g)]
    /\ ce_icam = 0
    /\ ce_pc = "loop"

\* one iteration of the loop over the cameras, with at least 2 centers in it
CeCamera ==
    /\ ce_pc = "loop"
    /\ ce_icam < Len0(ce_camerapix)
    /\ LET s == ce_camerapix[ce_icam][1]
           e == ce_camerapix[ce_icam][2]
           icenters == Slice0(ce_centers, s, e)
           new == ce_hstack(icenters)
           at == ce_dest(s, ce_icam)
       IN  /\ Len0(icenters) >= 2
           /\ ce_edges' = [i \in DOMAIN ce_edges |->
                              IF i >= at /\ i < at + Len0(new)
                              THEN new[i - at] ELSE ce_edges[i]]
    /\ ce_icam' = ce_icam + 1
    /\ UNCHANGED <<ce_centers, ce_camerapix, ce_pc, rmVars, opVars, inVars, emVars, jbVars, obVars>>

\* an iteration with fewer than 2 centers: icenters[0] or icenters[1] raises
\* IndexError
CeIndexError ==
    /\ ce_pc = "loop"
    /\ ce_icam < Len0(ce_camerapix)
    /\ LET s == ce_camerapix[ce_icam][1]
           e == ce_camerapix[ce_icam][2]
       IN  Len0(Slice0(ce_centers, s, e)) < 2
    /\ ce_pc' = "IndexError"
    /\ UNCHANGED <<ce_centers, ce_camerapix, ce_edges, ce_icam, rmVars, opVars, inVars, emVars, jbVars, obVars>>

\* return edges
CeReturn ==
    /\ ce_pc = "loop"
    /\ ce_icam = Len0(ce_camerapix)
    /\ ce_pc' = "returned"
    /\ UNCHANGED <<ce_centers, ce_camerapix, ce_edges, ce_icam, rmVars, opVars, inVars, emVars, jbVars, obVars>>

CeNext == CeCamera \/ CeIndexError \/ CeReturn

\* C9: an iteration over a camera segment [s, e) of at least 2 evenly spaced
\* centers (spacing d) writes exactly the e-s+1 slots edges[s+icam .. e+icam],
\* with centers[s] - d/2 + k*d in slot s+icam+k; the values depend on that
\* segment's centers only.
C9_EvenlySpaced(s, e) ==
    /\ e - s >= 2
    /\ \A i \in s..(e - 2) :
          ce_centers[i + 1] - ce_centers[i] = ce_centers[s + 1] - ce_centers[s]

C9_EvenSegmentEdges ==
    [][ce_icam' = ce_icam + 1 =>
        LET s == ce_camerapix[ce_icam][1]
            e == ce_camerapix[ce_icam][2]
            d == ce_centers[s + 1] - ce_centers[s]
        IN  C9_EvenlySpaced(s, e) =>
              /\ \A k \in 0..(e - s) :
                    ce_edges'[s + ce_icam + k] =
                        Q(2 * ce_centers[s] - d + 2 * k * d, 2)
              /\ \A i \in DOMAIN ce_edges :
                    (i < s + ce_icam \/ i > e + ce_icam) =>
                        ce_edges'[i] = ce_edges[i]]_ceVars

\* the second camera's segment has 3 evenly spaced centers (spacing 1), the
\* first camera's 2 centers are 3 apart, and all edges have been written
C9_Witness ==
    /\ ce_pc = "returned"
    /\ Len0(ce_camerapix) = 2
    /\ ce_camerapix[1][2] - ce_camerapix[1][1] = 3
    /\ C9_EvenlySpaced(ce_camerapix[1][1], ce_camerapix[1][2])
    /\ ce_centers[ce_camerapix[1][1] + 1] - ce_centers[ce_camerapix[1][1]] = 1
    /\ ce_centers[1] - ce_centers[0] = 3

\* ------------------------------------------------------------------------
\* EMLineJacobian._matvec_J and _rmatvec_J (sparse_rep.py)
\* ------------------------------------------------------------------------

\* Largest number of columns and of bins of a fragment drawn at random.
MaxVars == 2

MaxBinsJ == 2

\* Rows of values, bin vectors and parameter vectors: all ones, or 1, 2, 3, ...
Ones(n) == [i \in 0..(n - 1) |-> QInt(1)]

Ramp(n) == [i \in 0..(n - 1) |-> QInt(i + 1)]

Fill(n, g) == [i \in 0..(n - 1) |-> QInt(g)]

\* for j in range(nbins): w[j] = 0.
op_zero_skipped(w, nbins) == w

op_zero(w, nbins) ==
    [r \in DOMAIN w |-> IF r < nbins THEN QInt(0) ELSE w[r]]

\* w[j + starts[i]] += vals[j] * v[i] for j in j..ends[i]-starts[i]-1, then the
\* columns after i.  m = [w, stray]: a write at an index within the view
\* w[s:e] or in the rows of w after it changes w; numba checks no bounds, so
\* an index past the allocation is recorded in stray.
RECURSIVE op_accumulate(_, _, _, _, _)
op_accumulate(J, v, i, j, m) ==
    IF i >= Len0(J.starts) THEN m
    ELSE IF j >= J.ends[i] - J.starts[i] THEN op_accumulate(J, v, i + 1, 0, m)
    ELSE LET idx == j + J.starts[i]
             add == QMul(J.values[i][j], v[i])
         IN  op_accumulate(J, v, i, j + 1,
                 IF idx \in DOMAIN m.w
                 THEN [m EXCEPT !.w[idx] = QAdd(@, add)]
                 ELSE [m EXCEPT !.stray = @ \cup {idx}])

matvec_J(J, v, w, nbins) ==
    op_accumulate(J, v, 0, 0, [w |-> op_zero(w, nbins), stray |-> {}])

\* acc += vals[j] * v[j + starts[i]] for j in j..ends[i]-starts[i]-1
RECURSIVE op_dot(_, _, _, _)
op_dot(J, v, i, j) ==
    IF j >= J.ends[i] - J.starts[i] THEN QInt(0)
    ELSE QAdd(QMul(J.values[i][j], v[j + J.starts[i]]), op_dot(J, v, i, j + 1))

rmatvec_J_unshifted(J, v, w) ==
    [i \in DOMAIN w |->
        IF i < Len0(J.starts)
        THEN op_dot([J EXCEPT !.starts = [k \in DOMAIN J.starts |-> 0],
                              !.ends = [k \in DOMAIN J.ends |-> J.ends[k] - J.starts[k]]],
                    v, i, 0)
        ELSE w[i]]

rmatvec_J(J, v, w) ==
    [i \in DOMAIN w |-> IF i < Len0(J.starts) THEN op_dot(J, v, i, 0) ELSE w[i]]

\* fragments with 0 <= starts[i] <= ends[i] <= nbins
Runs(nbins) == {r \in (0..nbins) \X (0..nbins) : r[1] <= r[2]}

OpInit ==
    /\ \E nvars \in 1..MaxVars, nbins \in 1..MaxBinsJ :
          /\ \E runs \in Arrays(nvars, Runs(nbins)),
                 values \in Arrays(nvars, {Ones(nbins), Ramp(nbins)}) :
                op_J = [starts |-> [i \in 0..(nvars - 1) |-> runs[i][1]],
                        ends   |-> [i \in 0..(nvars - 1) |-> runs[i][2]],
                        values |-> values]
          /\ op_vFull \in {Ones(nvars), Ramp(nvars)}
          /\ op_u \in {Ones(nbins), Ramp(nbins)}
          /\ op_nbins = nbins
          /\ \E g \in Garbage :
                /\ op_w = Fill(nbins, g)
                /\ op_wT = Fill(nvars, g)
    /\ op_stray = {}
    /\ op_fwd = "todo"
    /\ op_bwd = "todo"

\* self._matvec_J(jac, self.vFull, w[s:e])
OpMatvecJ ==
    /\ op_fwd = "todo"
    /\ LET m == matvec_J(op_J, op_vFull, op_w, op_nbins)
       IN  /\ op_w' = m.w
           /\ op_stray' = m.stray
    /\ op_fwd' = "done"
    /\ UNCHANGED <<op_J, op_vFull, op_u, op_nbins, op_wT, op_bwd, rmVars, ceVars, inVars, emVars, jbVars, obVars>>

\* self._rmatvec_J(jac, v[s:e], self.vFull)
OpRmatvecJ ==
    /\ op_bwd = "todo"
    /\ op_wT' = rmatvec_J(op_J, op_u, op_wT)
    /\ op_bwd' = "done"
    /\ UNCHANGED <<op_J, op_vFull, op_u, op_nbins, op_w, op_stray, op_fwd, rmVars, ceVars, inVars, emVars, jbVars, obVars>>

OpNext == OpMatvecJ \/ OpRmatvecJ

\* C7: _rmatvec_J is the transpose of _matvec_J: sum_r _matvec_J(J, v)[r] * u[r]
\* = sum_i v[i] * _rmatvec_J(J, u)[i]; and each result is the sum of the
\* products over the runs alone, whatever the output buffer held before:
\* row r of the forward product sums values[i][r - starts[i]] * v[i] over the
\* columns i whose run covers r, and entry i of the transpose product sums
\* values[i][r - starts[i]] * u[r] over the run of column i (0 for an empty run).
RECURSIVE QSumOver(_, _)
QSumOver(S, f) ==
    IF S = {} THEN QInt(0)
    ELSE LET x == CHOOSE y \in S : TRUE IN QAdd(f[x], QSumOver(S \ {x}, f))

C7_Covering(r) == {i \in DOMAIN op_J.starts : op_J.starts[i] <= r /\ r < op_J.ends[i]}

C7_Run(i) == {r \in 0..(op_nbins - 1) : op_J.starts[i] <= r /\ r < op_J.ends[i]}

C7_Transpose ==
    /\ op_fwd = "done" =>
          \A r \in 0..(op_nbins - 1) :
              op_w[r] = QSumOver(C7_Covering(r),
                           [i \in C7_Covering(r) |->
                               QMul(op_J.values[i][r - op_J.starts[i]], op_vFull[i])])
    /\ op_bwd = "done" =>
          \A i \in DOMAIN op_J.starts :
              op_wT[i] = QSumOver(C7_Run(i),
                           [r \in C7_Run(i) |->
                               QMul(op_J.values[i][r - op_J.starts[i]], op_u[r])])
    /\ (op_fwd = "done" /\ op_bwd = "done") =>
          QSumOver(0..(op_nbins - 1),
                   [r \in 0..(op_nbins - 1) |-> QMul(op_w[r], op_u[r])])
          = QSumOver(DOMAIN op_J.starts,
                   [i \in DOMAIN op_J.starts |-> QMul(op_vFull[i], op_wT[i])])

\* both products done on a fragment with an empty run and a run that starts
\* after row 0, with a non-zero result
C7_Witness ==
    /\ op_fwd = "done" /\ op_bwd = "done"
    /\ Len0(op_J.starts) = 2
    /\ op_J.starts[0] = op_J.ends[0]
    /\ op_J.starts[1] = 1 /\ op_J.ends[1] = 2
    /\ op_wT[1] = QInt(2)
    /\ op_w[1] = QInt(2)

\* ------------------------------------------------------------------------
\* Numbers of the line model (emlines_sparse_custom.py and its libraries)
\* ------------------------------------------------------------------------

\* Do not compute the normal CDF more than this many standard deviations
\* from the mean.
MAX_SDEV == 5

\* The speed of light, in the velocity unit of the model: an eighth of it
\* (the source's unit is km/s), so that sigma / C_LIGHT is a multiple of 1/8.
C_LIGHT == 8

\* np.sqrt(2 * np.pi), to 2 digits
SQRT_2PI == Q(5, 2)

\* np.log at the integers 1..64, in eighths: round(8 * ln n) / 8.  It is
\* strictly increasing on 1..9, where the bin edges lie.
LogTable ==
    << 0,  6,  9, 11, 13, 14, 16, 17, 18, 18, 19, 20, 21, 21, 22, 22,
      23, 23, 24, 24, 24, 25, 25, 25, 26, 26, 26, 27, 27, 27, 27, 28,
      28, 28, 28, 29, 29, 29, 29, 30, 30, 30, 30, 30, 30, 31, 31, 31,
      31, 31, 31, 32, 32, 32, 32, 32, 32, 32, 33, 33, 33, 33, 33, 33 >>

Log(x) == Q(LogTable[QTrunc(x)], 8)

\* np.exp(0.5 * sigma**2) for a small sigma, to the nearest 32nd of
\* 1 + 0.5 * sigma**2
ExpHalfSq(sigma) ==
    LET y == QAdd(QInt(1), QMul(Q(1, 2), QMul(sigma, sigma)))
    IN  Q((64 * y[1] + y[2]) \div (2 * y[2]), 32)

\* np.exp(-0.5 * a**2), in eighths, by the half-unit step of |a|
ExpNegHalfSq(a) ==
    LET h == HalfSteps(a)
    IN  Q(IF h >= 5 THEN 0 ELSE <<8, 7, 5, 3, 1>>[h + 1], 8)

\* math.erf(a * SQRT1_2) for |a| < 1, in eighths, by the half-unit step of |a|
ErfScaled(a) ==
    LET y == Q(IF HalfSteps(a) = 0 THEN 0 ELSE 3, 8)
    IN  IF a[1] < 0 THEN QNeg(y) ELSE y

\* math.erfc(z * SQRT1_2) for z >= 1, in eighths, by the half-unit step of z
ErfcScaled(z) ==
    LET h == HalfSteps(z)
    IN  Q(IF h >= 4 THEN 0 ELSE <<3, 1>>[h - 1], 8)

norm_pdf(a) == QMul(QInv(SQRT_2PI), ExpNegHalfSq(a))

norm_cdf(a) ==
    LET z == QAbs(a)
    IN  IF QLess(z, QInt(1))
        THEN QAdd(Q(1, 2), QMul(Q(1, 2), ErfScaled(a)))
        ELSE LET y == QMul(Q(1, 2), ErfcScaled(z))
             IN  IF a[1] > 0 THEN QSub(QInt(1), y) ELSE y

\* np.searchsorted(a, key, side): the insertion point by bisection of [imin, imax)
RECURSIVE bisect(_, _, _, _, _)
bisect(a, key, side, imin, imax) ==
    IF imin >= imax THEN imin
    ELSE LET mid == imin + ((imax - imin) \div 2)
         IN  IF \/ side = "left" /\ QLess(a[mid], key)
                \/ side = "right" /\ QLeq(a[mid], key)
             THEN bisect(a, key, side, mid + 1, imax)
             ELSE bisect(a, key, side, imin, mid)

searchsorted(a, key, side) == bisect(a, key, side, 0, Len0(a))

\* np.array_split(parameters, 3)
line_amplitudes(P) == [j \in 0..((Len0(P) \div 3) - 1) |-> P[j]]

line_vshifts(P) == [j \in 0..((Len0(P) \div 3) - 1) |-> P[(Len0(P) \div 3) + j]]

line_sigmas(P) == [j \in 0..((Len0(P) \div 3) - 1) |-> P[2 * (Len0(P) \div 3) + j]]

\* np.diff(a)
diff(a) == [i \in 0..(Len0(a) - 2) |-> QSub(a[i + 1], a[i])]

RECURSIVE QMinOf(_, _)
QMinOf(a, n) ==
    IF n = 1 THEN a[0]
    ELSE LET m == QMinOf(a, n - 1) IN IF QLess(a[n - 1], m) THEN a[n - 1] ELSE m

RECURSIVE MaxOf(_, _)
MaxOf(a, n) == IF n = 1 THEN a[0] ELSE Max2(a[n - 1], MaxOf(a, n - 1))

\* ------------------------------------------------------------------------
\* build_emline_model (emlines_sparse_custom.py)
\* ------------------------------------------------------------------------

\* ibin_width = np.hstack((np.array([0.]), 1 / np.diff(obs_bin_edges)))
ibin_width_of_next_bin(edges) ==
    [k \in 0..(Len0(edges) - 1) |->
        IF k = 0 THEN QInt(0)
        ELSE IF k = Len0(edges) - 1 THEN QInv(QInt(edges[k] - edges[k - 1]))
        ELSE QInv(QInt(edges[k + 1] - edges[k]))]

ibin_width(edges) ==
    [k \in 0..(Len0(edges) - 1) |->
        IF k = 0 THEN QInt(0) ELSE QInv(QInt(edges[k] - edges[k - 1]))]

\* 2*MAX_SDEV*np.max(line_sigmas/C_LIGHT) / np.min(np.diff(log_obs_bin_edges)):
\* a scalar division, which raises ZeroDivisionError in compiled code
max_width_quotient(P, logedges) ==
    QDiv(QMul(QInt(2 * MAX_SDEV), Q(MaxOf(line_sigmas(P), Len0(P) \div 3), C_LIGHT)),
         QMinOf(diff(logedges), Len0(logedges) - 1))

\* max_width = int(...) + 4
max_width(P, logedges) == QTrunc(max_width_quotient(P, logedges)) + 4

\* sigma = line_sigmas[j] / C_LIGHT
em_sigma(P, j) == Q(line_sigmas(P)[j], C_LIGHT)

\* c = SQRT_2PI * sigma * np.exp(0.5 * sigma**2)
em_c(P, j) == QMul(QMul(SQRT_2PI, em_sigma(P, j)), ExpHalfSq(em_sigma(P, j)))

\* line_shift = 1. + redshift + line_vshifts[j] / C_LIGHT
em_line_shift(P, z, j) == QAdd(QInt(1 + z), Q(line_vshifts(P)[j], C_LIGHT))

em_shifted_line(P, z, lw, j) == QMul(QInt(lw[j]), em_line_shift(P, z, j))

em_log_shifted_line(P, z, lw, j) == Log(em_shifted_line(P, z, lw, j))

\* lo = np.searchsorted(log_obs_bin_edges,
\*                      log_shifted_line - MAX_SDEV * sigma, side="left")
em_lo(P, logedges, z, lw, j) ==
    searchsorted(logedges,
                 QSub(em_log_shifted_line(P, z, lw, j),
                      QMul(QInt(MAX_SDEV), em_sigma(P, j))),
                 "left")

\* hi = np.searchsorted(log_obs_bin_edges,
\*                      log_shifted_line + MAX_SDEV * sigma, side="right")
em_hi(P, logedges, z, lw, j) ==
    searchsorted(logedges,
                 QAdd(em_log_shifted_line(P, z, lw, j),
                      QMul(QInt(MAX_SDEV), em_sigma(P, j))),
                 "right")

\* A = c * line_amplitudes[j] * shifted_line
em_A(P, z, lw, j) ==
    QMul(QMul(em_c(P, j), QInt(line_amplitudes(P)[j])), em_shifted_line(P, z, lw, j))

\* offset = log_shifted_line / sigma + sigma
em_offset(P, z, lw, j) ==
    QAdd(QDiv(em_log_shifted_line(P, z, lw, j), em_sigma(P, j)), em_sigma(P, j))

\* edge_vals before the differences: edge_vals[i] is the value at edge
\* i + lo - 1; 0 at edge lo - 1, A at edge hi, A * norm_cdf(x) between, with
\* x = log_obs_bin_edges[i+lo-1]/sigma - offset
em_edge_vals(logedges, lo, hi, sigma, A, offset) ==
    [i \in 0..(hi - lo + 1) |->
        IF i = 0 THEN QInt(0)
        ELSE IF i = hi - lo + 1 THEN A
        ELSE QMul(A, norm_cdf(QSub(QDiv(logedges[i + lo - 1], sigma), offset)))]

\* edge_vals[i] = (edge_vals[i+1] - edge_vals[i]) * ibin_width[i+lo] for i in
\* range(nedges - 1).  ibw is ibin_width, which has the edges' length; a read
\* past it (i + lo = hi = len(obs_bin_edges)) is unchecked and yields g.
em_bin_avgs(ev, ibw, lo, hi, g) ==
    [i \in 0..(hi - lo) |->
        QMul(QSub(ev[i + 1], ev[i]), IF i + lo \in DOMAIN ibw THEN ibw[i + lo] ELSE g)]

\* the slice of model_fluxes that receives edge_vals[:nedges-1]
em_slice_from_lo_plus_1(lo, hi) == (lo + 1)..(hi + 1)

em_slice(lo, hi) == lo..hi

\* the body of the loop for a line j with hi != lo, from sigma to
\* model_fluxes[lo:hi+1] += edge_vals[:nedges-1]
em_add_line(P, edges, logedges, z, lw, j, g, fluxes) ==
    LET lo == em_lo(P, logedges, z, lw, j)
        hi == em_hi(P, logedges, z, lw, j)
        ev == em_edge_vals(logedges, lo, hi, em_sigma(P, j), em_A(P, z, lw, j),
                           em_offset(P, z, lw, j))
        avgs == em_bin_avgs(ev, ibin_width(edges), lo, hi, g)
        first == CHOOSE k \in em_slice(lo, hi) : \A m \in em_slice(lo, hi) : k <= m
    IN  [k \in DOMAIN fluxes |->
            IF k \in em_slice(lo, hi) THEN QAdd(fluxes[k], avgs[k - first])
            ELSE fluxes[k]]

\* What an unchecked read past the end of an array of floats may yield.
QGarbage == {QInt(g) : g \in Garbage}

\* The float in memory behind ibin_width, where ibin_width[len(obs_bin_edges)]
\* reads: any value at the first read of a call, the same value afterwards.
em_past_values(hi) ==
    IF hi < Len0(obs_bin_edges) THEN {QInt(0)}
    ELSE IF em_past = <<>> THEN QGarbage
    ELSE {em_past}

\* Is the scratch buffer edge_vals = np.empty(max_width) allocated?
em_allocated ==
    /\ QMinOf(diff(log_obs_bin_edges), Len0(log_obs_bin_edges) - 1) # QInt(0)
    /\ max_width(parameters, log_obs_bin_edges) >= 0

\* a loop iteration with hi == lo: continue
EmSkip ==
    /\ em_pc = "loop" /\ em_allocated
    /\ em_j < Len0(line_wavelengths)
    /\ LET lo == em_lo(parameters, log_obs_bin_edges, redshift, line_wavelengths, em_j)
           hi == em_hi(parameters, log_obs_bin_edges, redshift, line_wavelengths, em_j)
       IN  /\ hi = lo
           /\ em_window' = [em_window EXCEPT ![em_j] = <<lo, hi, "continue">>]
    /\ em_j' = em_j + 1
    /\ UNCHANGED <<em_model_fluxes, em_past, em_result, em_pc>>
    /\ UNCHANGED <<rmVars, ceVars, opVars, inVars, jbVars, obVars>>

\* a loop iteration with hi != lo whose nedges values fit edge_vals
EmLine ==
    /\ em_pc = "loop" /\ em_allocated
    /\ em_j < Len0(line_wavelengths)
    /\ LET lo == em_lo(parameters, log_obs_bin_edges, redshift, line_wavelengths, em_j)
           hi == em_hi(parameters, log_obs_bin_edges, redshift, line_wavelengths, em_j)
       IN  /\ hi # lo
           /\ hi - lo + 2 <= max_width(parameters, log_obs_bin_edges)
           /\ em_window' = [em_window EXCEPT ![em_j] = <<lo, hi, "added">>]
           /\ \E g \in em_past_values(hi) :
                 /\ em_past' = IF hi >= Len0(obs_bin_edges) THEN g ELSE em_past
                 /\ em_model_fluxes' =
                        em_add_line(parameters, obs_bin_edges, log_obs_bin_edges,
                                    redshift, line_wavelengths, em_j, g, em_model_fluxes)
    /\ em_j' = em_j + 1
    /\ UNCHANGED <<em_result, em_pc>>
    /\ UNCHANGED <<rmVars, ceVars, opVars, inVars, jbVars, obVars>>

\* return model_fluxes[1:-1]; the dummy entries are out of reach from here on
EmReturn ==
    /\ em_pc = "loop" /\ em_allocated
    /\ em_j = Len0(line_wavelengths)
    /\ em_result' = [b \in 0..(Len0(em_model_fluxes) - 3) |-> em_model_fluxes[b + 1]]
    /\ em_model_fluxes' = <<>>
    /\ em_past' = <<>>
    /\ em_pc' = "returned"
    /\ UNCHANGED <<em_j, em_window>>
    /\ UNCHANGED <<rmVars, ceVars, opVars, inVars, jbVars, obVars>>

\* np.min(np.diff(log_obs_bin_edges)) is 0: the division of line 108 raises
EmZeroDivisionError ==
    /\ em_pc = "loop" /\ em_j = 0
    /\ QMinOf(diff(log_obs_bin_edges), Len0(log_obs_bin_edges) - 1) = QInt(0)
    /\ em_pc' = "ZeroDivisionError"
    /\ UNCHANGED <<em_j, em_window, em_model_fluxes, em_past, em_result>>
    /\ UNCHANGED <<rmVars, ceVars, opVars, inVars, jbVars, obVars>>

\* max_width < 0: np.empty(max_width) raises
EmValueError ==
    /\ em_pc = "loop" /\ em_j = 0
    /\ QMinOf(diff(log_obs_bin_edges), Len0(log_obs_bin_edges) - 1) # QInt(0)
    /\ max_width(parameters, log_obs_bin_edges) < 0
    /\ em_pc' = "ValueError"
    /\ UNCHANGED <<em_j, em_window, em_model_fluxes, em_past, em_result>>
    /\ UNCHANGED <<rmVars, ceVars, opVars, inVars, jbVars, obVars>>

\* a loop iteration with hi != lo whose nedges values do not fit edge_vals:
\* the writes behind it are unchecked; the process crashes, or the values
\* are read back as written and the iteration ends as any other
EmOverflow ==
    /\ em_pc = "loop" /\ em_allocated
    /\ em_j < Len0(line_wavelengths)
    /\ LET lo == em_lo(parameters, log_obs_bin_edges, redshift, line_wavelengths, em_j)
           hi == em_hi(parameters, log_obs_bin_edges, redshift, line_wavelengths, em_j)
       IN  /\ hi # lo
           /\ hi - lo + 2 > max_width(parameters, log_obs_bin_edges)
           /\ \/ /\ em_pc' = "crashed"
                 /\ UNCHANGED <<em_j, em_window, em_model_fluxes, em_past>>
              \/ /\ em_window' = [em_window EXCEPT ![em_j] = <<lo, hi, "added">>]
                 /\ \E g \in em_past_values(hi) :
                       /\ em_past' = IF hi >= Len0(obs_bin_edges) THEN g ELSE em_past
                       /\ em_model_fluxes' =
                              em_add_line(parameters, obs_bin_edges, log_obs_bin_edges,
                                          redshift, line_wavelengths, em_j, g,
                                          em_model_fluxes)
                 /\ em_j' = em_j + 1
                 /\ UNCHANGED em_pc
    /\ UNCHANGED em_result
    /\ UNCHANGED <<rmVars, ceVars, opVars, inVars, jbVars, obVars>>

\* Inputs.  Bin edges: strictly increasing wavelengths of Waves.
MaxEdges == 3

MaxLines == 2

Waves == {1, 2, 3, 5, 7}

LineWaves == {1, 3}

SigmaVals == {1, 2}

Redshifts == {1}

Increasing(n, S) == {e \in Arrays(n, S) : \A i \in 1..(n - 1) : e[i - 1] < e[i]}

EdgeArrays == UNION {Increasing(n, Waves) : n \in 2..MaxEdges}

\* line lists in the order of their wavelengths
LineLists(n) == {lw \in Arrays(n, LineWaves) : \A i \in 1..(n - 1) : lw[i - 1] <= lw[i]}

\* amplitudes 2, 3, ..., no velocity shift, sigmas in SigmaVals
ParameterArrays(n) ==
    {[k \in 0..(3 * n - 1) |->
        IF k < n THEN k + 2 ELSE IF k < 2 * n THEN 0 ELSE s[k - 2 * n]] :
     s \in Arrays(n, SigmaVals)}

InInit ==
    /\ obs_bin_edges \in EdgeArrays
    /\ log_obs_bin_edges = [i \in DOMAIN obs_bin_edges |-> Log(QInt(obs_bin_edges[i]))]
    /\ redshift \in Redshifts
    /\ \E n \in 1..MaxLines :
          /\ line_wavelengths \in LineLists(n)
          /\ parameters \in ParameterArrays(n)
    /\ obs_weights = [b \in 0..(Len0(obs_bin_edges) - 2) |-> b + 1]

\* any bin edges, increasing or not, and one line
AnyEdgeArrays == UNION {Arrays(n, Waves) : n \in 2..MaxEdges}

InAnyInit ==
    /\ obs_bin_edges \in AnyEdgeArrays
    /\ log_obs_bin_edges = [i \in DOMAIN obs_bin_edges |-> Log(QInt(obs_bin_edges[i]))]
    /\ redshift \in Redshifts
    /\ line_wavelengths \in LineLists(1)
    /\ parameters \in ParameterArrays(1)
    /\ obs_weights = [b \in 0..(Len0(obs_bin_edges) - 2) |-> b + 1]

EmInit ==
    /\ em_j = 0
    /\ em_window = [j \in DOMAIN line_wavelengths |-> <<>>]
    /\ em_model_fluxes = [k \in 0..Len0(obs_bin_edges) |-> QInt(0)]
    /\ em_past = <<>>
    /\ em_result = <<>>
    /\ em_pc = "loop"

\* ------------------------------------------------------------------------
\* build_emline_model_jacobian (emlines_sparse_custom.py)
\* ------------------------------------------------------------------------

\* w = np.hstack((np.array([0.]), obs_weights / np.diff(obs_bin_edges)))
jb_w(weights, edges) ==
    [k \in 0..(Len0(edges) - 1) |->
        IF k = 0 THEN QInt(0) ELSE Q(weights[k - 1], edges[k] - edges[k - 1])]

\* sigma = line_sigmas[j] / C_LIGHT
jb_sigma(P, j) == Q(line_sigmas(P)[j], C_LIGHT)

\* c0 = SQRT_2PI * np.exp(0.5 * sigma**2)
jb_c0(P, j) == QMul(SQRT_2PI, ExpHalfSq(jb_sigma(P, j)))

\* line_shift = 1. + redshift + line_vshifts[j] / C_LIGHT
jb_line_shift(P, z, j) == QAdd(QInt(1 + z), Q(line_vshifts(P)[j], C_LIGHT))

\* log_shifted_line = np.log(line_wavelengths[j] * line_shift)
jb_log_shifted_line(P, z, lw, j) == Log(QMul(QInt(lw[j]), jb_line_shift(P, z, j)))

\* lo = np.searchsorted(log_obs_bin_edges,
\*                      log_shifted_line - MAX_SDEV * sigma, side="left")
jb_lo(P, logedges, z, lw, j) ==
    searchsorted(logedges,
                 QSub(jb_log_shifted_line(P, z, lw, j),
                      QMul(QInt(MAX_SDEV), jb_sigma(P, j))),
                 "left")

jb_hi_left(P, logedges, z, lw, j) ==
    searchsorted(logedges,
                 QAdd(jb_log_shifted_line(P, z, lw, j),
                      QMul(QInt(MAX_SDEV), jb_sigma(P, j))),
                 "left")

\* hi = np.searchsorted(log_obs_bin_edges,
\*                      log_shifted_line + MAX_SDEV * sigma, side="right")
jb_hi(P, logedges, z, lw, j) ==
    searchsorted(logedges,
                 QAdd(jb_log_shifted_line(P, z, lw, j),
                      QMul(QInt(MAX_SDEV), jb_sigma(P, j))),
                 "right")

\* offset = log_shifted_line / sigma + sigma
jb_offset(P, z, lw, j) ==
    QAdd(QDiv(jb_log_shifted_line(P, z, lw, j), jb_sigma(P, j)), jb_sigma(P, j))

\* c = c0 * line_wavelengths[j]
jb_c(P, lw, j) == QMul(jb_c0(P, j), QInt(lw[j]))

\* A = c / C_LIGHT * line_amplitudes[j]
jb_A(P, lw, j) == QMul(QDiv(jb_c(P, lw, j), QInt(C_LIGHT)), QInt(line_amplitudes(P)[j]))

\* x = log_obs_bin_edges[e]/sigma - offset, at the edge e
jb_x(logedges, e, sigma, offset) == QSub(QDiv(logedges[e], sigma), offset)

\* The three values the loop stores for an edge inside the window, by column
\* ("a": amplitude, "v": velocity shift, "s": sigma):
\*   c * line_shift * sigma * cdf
\*   A * (sigma * cdf - pdf)
\*   A * line_shift * ((1 + sigma**2) * cdf - (x + 2*sigma) * pdf)
jb_val(col, c, A, ls, sigma, x) ==
    IF col = "a" THEN QMul(QMul(QMul(c, ls), sigma), norm_cdf(x))
    ELSE IF col = "v" THEN QMul(A, QSub(QMul(sigma, norm_cdf(x)), norm_pdf(x)))
    ELSE QMul(QMul(A, ls),
              QSub(QMul(QAdd(QInt(1), QMul(sigma, sigma)), norm_cdf(x)),
                   QMul(QAdd(x, QMul(QInt(2), sigma)), norm_pdf(x))))

\* and for the edge hi:
\*   c * line_shift * sigma,  A * sigma,  A * line_shift * (1 + sigma**2)
jb_val_hi(col, c, A, ls, sigma) ==
    IF col = "a" THEN QMul(QMul(c, ls), sigma)
    ELSE IF col = "v" THEN QMul(A, sigma)
    ELSE QMul(QMul(A, ls), QAdd(QInt(1), QMul(sigma, sigma)))

\* row with the nedges values of the edges lo - 1 .. hi in its first slots
jb_fill(row, col, logedges, lo, hi, c, A, ls, sigma, offset) ==
    [i \in DOMAIN row |->
        IF i = 0 THEN QInt(0)
        ELSE IF i < hi - lo + 1
             THEN jb_val(col, c, A, ls, sigma, jb_x(logedges, i + lo - 1, sigma, offset))
        ELSE IF i = hi - lo + 1 THEN jb_val_hi(col, c, A, ls, sigma)
        ELSE row[i]]

\* vals[i] = (vals[i+1] - vals[i]) * w[i+lo] for i in range(nedges - 1); a
\* read of w past its end (i + lo = hi = len(obs_bin_edges)) yields g
jb_diff(row, w, lo, hi, g) ==
    [i \in DOMAIN row |->
        IF i < hi - lo + 1
        THEN QMul(QSub(row[i + 1], row[i]), IF i + lo \in DOMAIN w THEN w[i + lo] ELSE g)
        ELSE row[i]]

\* vals[0:nedges - 1] = vals[1:nedges]
jb_shift(row, lo, hi) ==
    [i \in DOMAIN row |-> IF i < hi - lo + 1 THEN row[i + 1] ELSE row[i]]

\* the row of one column after the body of the loop
jb_row(row, col, P, weights, edges, logedges, z, lw, j, lo, hi, g) ==
    LET filled == jb_fill(row, col, logedges, lo, hi, jb_c(P, lw, j), jb_A(P, lw, j),
                          jb_line_shift(P, z, j), jb_sigma(P, j), jb_offset(P, z, lw, j))
        diffed == jb_diff(filled, jb_w(weights, edges), lo, hi, g)
    IN  IF lo = 0 THEN jb_shift(diffed, lo, hi) ELSE diffed

\* starts[j] = lo if lo == 0, else lo - 1
jb_start(lo) == IF lo = 0 THEN lo ELSE lo - 1

\* mytile(a, 3)
mytile(a, n) == [k \in 0..(n * Len0(a) - 1) |-> a[k % Len0(a)]]

\* The float in memory behind w, where w[len(obs_bin_edges)] reads: any value
\* at the first read of a call, the same value afterwards.
jb_past_values(hi) ==
    IF hi < Len0(obs_bin_edges) THEN {QInt(0)}
    ELSE IF jb_past = <<>> THEN QGarbage
    ELSE {jb_past}

\* the call, up to the for loop: dd = np.empty(...), starts and ends zero
JbCall ==
    /\ jb_pc = "call"
    /\ em_pc = "returned"
    /\ \E g \in Garbage :
          /\ jb_empty' = g
          /\ jb_dd' = [r \in 0..(3 * Len0(line_wavelengths) - 1) |->
                          Fill(max_width(parameters, log_obs_bin_edges), g)]
    /\ jb_starts' = [j \in DOMAIN line_wavelengths |-> 0]
    /\ jb_ends' = [j \in DOMAIN line_wavelengths |-> 0]
    /\ jb_pc' = "loop"
    /\ UNCHANGED <<jb_j, jb_window, jb_past>>
    /\ UNCHANGED <<rmVars, ceVars, opVars, inVars, emVars, obVars>>

\* a loop iteration with hi == lo: continue
JbSkip ==
    /\ jb_pc = "loop"
    /\ jb_j < Len0(line_wavelengths)
    /\ LET lo == jb_lo(parameters, log_obs_bin_edges, redshift, line_wavelengths, jb_j)
           hi == jb_hi(parameters, log_obs_bin_edges, redshift, line_wavelengths, jb_j)
       IN  /\ hi = lo
           /\ jb_window' = [jb_window EXCEPT ![jb_j] = <<lo, hi, "continue">>]
    /\ jb_j' = jb_j + 1
    /\ UNCHANGED <<jb_starts, jb_ends, jb_dd, jb_empty, jb_past, jb_pc>>
    /\ UNCHANGED <<rmVars, ceVars, opVars, inVars, emVars, obVars>>

\* a loop iteration with hi != lo whose nedges values fit a row of dd
JbLine ==
    /\ jb_pc = "loop"
    /\ jb_j < Len0(line_wavelengths)
    /\ LET lo == jb_lo(parameters, log_obs_bin_edges, redshift, line_wavelengths, jb_j)
           hi == jb_hi(parameters, log_obs_bin_edges, redshift, line_wavelengths, jb_j)
           nlines == Len0(line_wavelengths)
       IN  /\ hi # lo
           /\ hi - lo + 2 <= max_width(parameters, log_obs_bin_edges)
           /\ jb_window' = [jb_window EXCEPT ![jb_j] = <<lo, hi, "stored">>]
           /\ \E g \in jb_past_values(hi) :
                 /\ jb_past' = IF hi >= Len0(obs_bin_edges) THEN g ELSE jb_past
                 /\ jb_dd' =
                        [r \in DOMAIN jb_dd |->
                            IF r % nlines # jb_j THEN jb_dd[r]
                            ELSE jb_row(jb_dd[r], <<"a", "v", "s">>[(r \div nlines) + 1],
                                        parameters, obs_weights, obs_bin_edges,
                                        log_obs_bin_edges, redshift, line_wavelengths,
                                        jb_j, lo, hi, g)]
           /\ jb_starts' = [jb_starts EXCEPT ![jb_j] = jb_start(lo)]
           /\ jb_ends' = [jb_ends EXCEPT ![jb_j] = hi]
    /\ jb_j' = jb_j + 1
    /\ UNCHANGED <<jb_empty, jb_pc>>
    /\ UNCHANGED <<rmVars, ceVars, opVars, inVars, emVars, obVars>>

\* return (mytile(starts, 3), mytile(ends, 3), dd), to EMLineJacobian as the
\* fragment of a camera with the rows [s, e) of w, e - s = len(obs_weights);
\* w = np.empty(nBins) has the rows of `more` later cameras behind them and
\* holds what dd was handed
JbReturn ==
    /\ jb_pc = "loop"
    /\ jb_j = Len0(line_wavelengths)
    /\ jb_pc' = "returned"
    /\ op_J' = [starts |-> mytile(jb_starts, 3),
                ends   |-> mytile(jb_ends, 3),
                values |-> jb_dd]
    /\ op_vFull' = Ramp(3 * Len0(line_wavelengths))
    /\ op_nbins' = Len0(obs_weights)
    /\ \E more \in 0..1 : op_w' = Fill(Len0(obs_weights) + more, jb_empty)
    /\ op_fwd' = "todo"
    /\ UNCHANGED <<op_u, op_wT, op_stray, op_bwd>>
    /\ UNCHANGED <<jb_j, jb_window, jb_starts, jb_ends, jb_dd, jb_empty, jb_past>>
    /\ UNCHANGED <<rmVars, ceVars, inVars, emVars, obVars>>

JbInit ==
    /\ jb_j = 0
    /\ jb_window = [j \in DOMAIN line_wavelengths |-> <<>>]
    /\ jb_starts = <<>>
    /\ jb_ends = <<>>
    /\ jb_dd = <<>>
    /\ jb_empty = 0
    /\ jb_past = <<>>
    /\ jb_pc = "call"

\* ------------------------------------------------------------------------
\* _objective (emlines_sparse_custom.py)
\* ------------------------------------------------------------------------

\* build_emline_model from line j on; g is what a read behind ibin_width yields
RECURSIVE em_loop(_, _, _, _, _, _, _, _)
em_loop(P, edges, logedges, z, lw, j, g, fluxes) ==
    IF j >= Len0(lw) THEN fluxes
    ELSE em_loop(P, edges, logedges, z, lw, j + 1, g,
                 IF em_hi(P, logedges, z, lw, j) = em_lo(P, logedges, z, lw, j)
                 THEN fluxes
                 ELSE em_add_line(P, edges, logedges, z, lw, j, g, fluxes))

\* build_emline_model: model_fluxes[1:-1] after the loop over all lines
build_emline_model(P, edges, logedges, z, lw, g) ==
    LET fluxes == em_loop(P, edges, logedges, z, lw, 0, g,
                          [k \in 0..Len0(edges) |-> QInt(0)])
    IN  [b \in 0..(Len0(edges) - 2) |-> fluxes[b + 1]]

\* parameters[Ifree] = free_parameters
ob_store_free(P, Ifree, free) ==
    [k \in DOMAIN P |->
        IF \E f \in DOMAIN Ifree : Ifree[f] = k
        THEN free[CHOOSE f \in DOMAIN Ifree : Ifree[f] = k]
        ELSE P[k]]

\* for I, indx, factor in zip(Itied, tiedtoparam, tiedfactor):
\*     parameters[I] = parameters[indx] * factor
\* from the t-th tie on
RECURSIVE ob_apply_ties(_, _, _, _, _)
ob_apply_ties(P, Itied, tiedtoparam, tiedfactor, t) ==
    IF t >= Len0(Itied) THEN P
    ELSE ob_apply_ties([P EXCEPT ![Itied[t]] = P[tiedtoparam[t]] * tiedfactor[t]],
                       Itied, tiedtoparam, tiedfactor, t + 1)

\* parameters[doubletindx] *= parameters[doubletpair]: all the products are
\* taken before any is stored
ob_apply_doublets(P, doubletindx, doubletpair) ==
    [k \in DOMAIN P |->
        IF \E d \in DOMAIN doubletindx : doubletindx[d] = k
        THEN P[k] * P[doubletpair[CHOOSE d \in DOMAIN doubletindx : doubletindx[d] = k]]
        ELSE P[k]]

\* the doublet update taken before the ties
ob_expand_doublets_first(P, free, a) ==
    ob_apply_ties(
        ob_apply_doublets(ob_store_free(P, a.Ifree, free),
                          a.doubletindx, a.doubletpair),
        a.Itied, a.tiedtoparam, a.tiedfactor, 0)

\* the parameters buffer after lines 203-209
ob_expand(P, free, a) ==
    ob_apply_doublets(
        ob_apply_ties(ob_store_free(P, a.Ifree, free),
                      a.Itied, a.tiedtoparam, a.tiedfactor, 0),
        a.doubletindx, a.doubletpair)

\* resolution_matrix[icam].dot(mf)
ob_dot(R, mf) ==
    [i \in DOMAIN R |->
        QSumOver(DOMAIN mf, [k \in DOMAIN mf |-> QMul(QInt(R[i][k]), mf[k])])]

\* the camera of output row r
ob_camera(camerapix, r) ==
    CHOOSE icam \in DOMAIN camerapix : camerapix[icam][1] <= r /\ r < camerapix[icam][2]

\* model_fluxes after the loop over the cameras: rows s..e-1 hold camera
\* icam's resolution matrix times build_emline_model on the edges
\* s+icam .. e+icam
ob_model_fluxes(P, a, g) ==
    LET cam(icam) ==
            LET s == a.camerapix[icam][1]
                e == a.camerapix[icam][2]
            IN  ob_dot(a.resolution_matrix[icam],
                       build_emline_model(P,
                                          Slice0(a.obs_bin_edges, s + icam, e + icam + 1),
                                          Slice0(a.log_obs_bin_edges, s + icam, e + icam + 1),
                                          a.redshift, a.line_wavelengths, g))
        mfs == [icam \in DOMAIN a.camerapix |-> cam(icam)]
    IN  [r \in DOMAIN a.obs_fluxes |->
            mfs[ob_camera(a.camerapix, r)][r - a.camerapix[ob_camera(a.camerapix, r)][1]]]

\* residuals = obs_weights * (obs_fluxes - model_fluxes)
ob_residuals_of(P, a, g) ==
    LET mf == ob_model_fluxes(P, a, g)
    IN  [r \in DOMAIN a.obs_fluxes |->
            QMul(QInt(a.obs_weights[r]), QSub(QInt(a.obs_fluxes[r]), mf[r]))]

\* Calls made in one run, and the values of a free parameter.
MaxCalls == 2

FreeVals == {1, 2, 3}

\* one call of _objective
ObCall ==
    /\ ob_calls < MaxCalls
    /\ ob_args # <<>>
    /\ \E free \in Arrays(Len0(ob_args.Ifree), FreeVals), g \in QGarbage :
          LET P == ob_expand(ob_parameters, free, ob_args)
              res == ob_residuals_of(P, ob_args, g)
          IN  /\ ob_parameters' = P
              /\ ob_free' = free
              /\ ob_residuals' = res
              /\ ob_seen' = ob_seen \cup {<<free, res>>}
    /\ ob_calls' = ob_calls + 1
    /\ UNCHANGED ob_args
    /\ UNCHANGED <<rmVars, ceVars, opVars, inVars, emVars, jbVars>>

\* int arrays, written as tuples
A0(t) == [i \in 0..(Len(t) - 1) |-> t[i + 1]]

\* How the full parameters (amplitudes 0 and 1 of two lines) come from the
\* free ones: both free; both free, the first a doublet ratio of the second;
\* the second free, the first a fixed doublet ratio of it; the first free,
\* the second tied to twice the first; the first free and a doublet ratio of
\* the second, the second tied to the first and the second sigma (index 5)
\* tied to the second.
Mappings ==
    { [Ifree |-> A0(<<0, 1>>), Itied |-> A0(<<>>), tiedtoparam |-> A0(<<>>),
       tiedfactor |-> A0(<<>>), doubletindx |-> A0(<<>>), doubletpair |-> A0(<<>>)],
      [Ifree |-> A0(<<0, 1>>), Itied |-> A0(<<>>), tiedtoparam |-> A0(<<>>),
       tiedfactor |-> A0(<<>>), doubletindx |-> A0(<<0>>), doubletpair |-> A0(<<1>>)],
      [Ifree |-> A0(<<1>>), Itied |-> A0(<<>>), tiedtoparam |-> A0(<<>>),
       tiedfactor |-> A0(<<>>), doubletindx |-> A0(<<0>>), doubletpair |-> A0(<<1>>)],
      [Ifree |-> A0(<<0>>), Itied |-> A0(<<1>>), tiedtoparam |-> A0(<<0>>),
       tiedfactor |-> A0(<<2>>), doubletindx |-> A0(<<>>), doubletpair |-> A0(<<>>)],
      [Ifree |-> A0(<<0>>), Itied |-> A0(<<1, 5>>), tiedtoparam |-> A0(<<0, 1>>),
       tiedfactor |-> A0(<<1, 1>>), doubletindx |-> A0(<<0>>), doubletpair |-> A0(<<1>>)] }

\* Two bins, in one camera or in two; the resolution matrices sum a bin and
\* the one before it.
Observations ==
    { [obs_bin_edges |-> A0(<<1, 2, 5>>), camerapix |-> A0(<<<<0, 2>>>>),
       resolution_matrix |-> A0(<<A0(<<A0(<<1, 0>>), A0(<<1, 1>>)>>)>>)],
      [obs_bin_edges |-> A0(<<1, 2, 3, 5>>), camerapix |-> A0(<<<<0, 1>>, <<1, 2>>>>),
       resolution_matrix |-> A0(<<A0(<<A0(<<1>>)>>), A0(<<A0(<<1>>)>>)>>)] }

ObInit ==
    /\ \E m \in Mappings, o \in Observations :
          ob_args = [obs_bin_edges |-> o.obs_bin_edges,
                     log_obs_bin_edges |->
                         [i \in DOMAIN o.obs_bin_edges |-> Log(QInt(o.obs_bin_edges[i]))],
                     obs_fluxes |-> A0(<<1, 2>>),
                     obs_weights |-> A0(<<1, 2>>),
                     redshift |-> 1,
                     line_wavelengths |-> A0(<<1, 1>>),
                     resolution_matrix |-> o.resolution_matrix,
                     camerapix |-> o.camerapix,
                     Ifree |-> m.Ifree, Itied |-> m.Itied,
                     tiedtoparam |-> m.tiedtoparam, tiedfactor |-> m.tiedfactor,
                     doubletindx |-> m.doubletindx, doubletpair |-> m.doubletpair]
    /\ ob_parameters = A0(<<2, 3, 0, 0, 1, 1>>)
    /\ ob_free = <<>>
    /\ ob_residuals = <<>>
    /\ ob_seen = {}
    /\ ob_calls = 0

\* C8: whatever calls were made before it on the same `parameters` buffer
\* and fixed arguments, _objective returns the same residuals for the same
\* free parameters: no two calls so far had equal free parameters and
\* different residuals.
C8_SameFreeSameResiduals ==
    \A x \in ob_seen : \A y \in ob_seen : x[1] = y[1] => x[2] = y[2]


\* the parameters buffer once the free parameters of the call are stored
C11_AfterFree ==
    [k \in DOMAIN ob_parameters |->
        IF \E f \in DOMAIN ob_args.Ifree : ob_args.Ifree[f] = k
        THEN ob_free'[CHOOSE f \in DOMAIN ob_args.Ifree : ob_args.Ifree[f] = k]
        ELSE ob_parameters[k]]

\* the buffers after the first t tie assignments, taken in the order of Itied
C11_AfterTies[t \in 0..Len0(ob_args.Itied)] ==
    IF t = 0 THEN C11_AfterFree
    ELSE [C11_AfterTies[t - 1] EXCEPT
              ![ob_args.Itied[t - 1]] =
                  C11_AfterTies[t - 1][ob_args.tiedtoparam[t - 1]]
                      * ob_args.tiedfactor[t - 1]]

\* C11: every call of _objective stores the free parameters first, then
\* applies the ties one at a time in the order of Itied, then multiplies each
\* doublet by its pair's value as it stands after all the free and tied
\* assignments of this call, and builds the model (hence the residuals) from
\* the buffer after the doublet update.
C11_FixedExpansionOrder ==
    [][ob_calls' = ob_calls + 1 =>
        LET T == C11_AfterTies[Len0(ob_args.Itied)]
        IN  /\ \A k \in DOMAIN ob_parameters :
                  ob_parameters'[k] =
                      IF \E d \in DOMAIN ob_args.doubletindx : ob_args.doubletindx[d] = k
                      THEN T[k] * T[ob_args.doubletpair[
                               CHOOSE d \in DOMAIN ob_args.doubletindx :
                                   ob_args.doubletindx[d] = k]]
                      ELSE T[k]
            /\ \E g \in QGarbage :
                  ob_residuals' = ob_residuals_of(ob_parameters', ob_args, g)]_vars

\* a second call made with chained ties and a doublet whose pair is tied:
\* the pair and the tied sigma hold this call's free value, the doublet its
\* square, and the value differs from the one of the call before
C11_Witness ==
    /\ ob_calls = 2
    /\ Len0(ob_args.Itied) = 2 /\ Len0(ob_args.doubletindx) = 1
    /\ ob_free[0] = 3
    /\ ob_parameters[1] = 3 /\ ob_parameters[5] = 3 /\ ob_parameters[0] = 9
    /\ \E x \in ob_seen : x[1][0] # 3
\* ------------------------------------------------------------------------
\* Properties of the two builders
\* ------------------------------------------------------------------------

\* The support window of line j, by counting: the number of log bin edges
\* below the line's log centre - MAX_SDEV * sigma, and the number of log bin
\* edges at or below its log centre + MAX_SDEV * sigma.
LineCentre(j) ==
    Log(QMul(QInt(line_wavelengths[j]),
             QAdd(QInt(1 + redshift),
                  Q(parameters[Len0(line_wavelengths) + j], C_LIGHT))))

LineReach(j) ==
    QMul(QInt(MAX_SDEV), Q(parameters[2 * Len0(line_wavelengths) + j], C_LIGHT))

EdgesBelow(j) ==
    Cardinality({i \in DOMAIN log_obs_bin_edges :
                    QLess(log_obs_bin_edges[i], QSub(LineCentre(j), LineReach(j)))})

EdgesUpTo(j) ==
    Cardinality({i \in DOMAIN log_obs_bin_edges :
                    QLeq(log_obs_bin_edges[i], QAdd(LineCentre(j), LineReach(j)))})

\* bin b is one of the bins lo-1 .. hi-1 of a line j that is not skipped
InWindow(j, b) ==
    /\ EdgesUpTo(j) # EdgesBelow(j)
    /\ EdgesBelow(j) - 1 <= b
    /\ b <= EdgesUpTo(j) - 1

Bins == 0..(Len0(obs_bin_edges) - 2)

\* C2: a step of build_emline_model's loop for line j leaves every output bin
\* outside [lo-1, hi-1] as it was, and every bin if hi == lo; and the returned
\* array is exactly zero in every bin that lies in no line's window.
C2_OwnWindowOnly ==
    [][ /\ (em_pc = "loop" /\ em_j' = em_j + 1) =>
              \A b \in Bins :
                  ~InWindow(em_j, b) => em_model_fluxes'[b + 1] = em_model_fluxes[b + 1]
        /\ (em_pc = "loop" /\ em_pc' = "returned") =>
              \A b \in Bins :
                  (\A j \in DOMAIN line_wavelengths : ~InWindow(j, b)) =>
                      em_result'[b] = QInt(0)
      ]_vars

\* returned after two lines were added, with a bin outside both windows and a
\* bin inside one that got flux
C2_Witness ==
    /\ em_pc = "returned"
    /\ Len0(line_wavelengths) = 2
    /\ \A j \in DOMAIN line_wavelengths : em_window[j][3] = "added"
    /\ \E b \in Bins : /\ \A j \in DOMAIN line_wavelengths : ~InWindow(j, b)
                       /\ em_result[b] = QInt(0)
    /\ \E b \in Bins : /\ \E j \in DOMAIN line_wavelengths : InWindow(j, b)
                       /\ em_result[b] # QInt(0)

\* sum over the output bins of bin-average flux times bin width
C3_Area ==
    QSumOver(Bins, [b \in Bins |->
                       QMul(em_result[b], QInt(obs_bin_edges[b + 1] - obs_bin_edges[b]))])

\* a single line without velocity shift, its window strictly inside the edges
C3_SingleInsideLine ==
    /\ em_pc = "returned"
    /\ Len0(line_wavelengths) = 1
    /\ parameters[1] = 0
    /\ EdgesBelow(0) > 0
    /\ EdgesUpTo(0) < Len0(obs_bin_edges)

C3_ScaledAmplitude ==
    QMul(QMul(QMul(SQRT_2PI, Q(parameters[2], C_LIGHT)), ExpHalfSq(Q(parameters[2], C_LIGHT))),
         QInt(line_wavelengths[0] * (1 + redshift) * parameters[0]))

C4_SameWindows ==
    \A j \in DOMAIN jb_window :
        jb_window[j] # <<>> =>
            /\ em_window[j] # <<>>
            /\ jb_window[j][1] = em_window[j][1]
            /\ jb_window[j][2] = em_window[j][2]
            /\ (jb_window[j][3] = "continue") <=> (em_window[j][3] = "continue")
            /\ jb_window[j][3] = "continue" =>
                  /\ jb_starts[j] = jb_ends[j]
                  /\ jb_pc = "returned" =>
                        \A c \in 0..2 :
                            op_J.starts[c * Len0(line_wavelengths) + j]
                            = op_J.ends[c * Len0(line_wavelengths) + j]

\* the Jacobian returned for a skipped line and a line with a window
C4_Witness ==
    /\ jb_pc = "returned"
    /\ \E j \in DOMAIN jb_window : jb_window[j][3] = "continue"
    /\ \E j \in DOMAIN jb_window : jb_window[j][3] = "stored" /\ op_J.ends[j] > op_J.starts[j]

\* the per-edge value of column col of line j at bin edge e: 0 below the
\* window, the asymptote from edge hi on
C5_EdgeValue(col, j, e) ==
    LET c == jb_c(parameters, line_wavelengths, j)
        A == jb_A(parameters, line_wavelengths, j)
        ls == jb_line_shift(parameters, redshift, j)
        sigma == jb_sigma(parameters, j)
    IN  IF e < EdgesBelow(j) THEN QInt(0)
        ELSE IF e >= EdgesUpTo(j) THEN jb_val_hi(col, c, A, ls, sigma)
        ELSE jb_val(col, c, A, ls, sigma,
                    jb_x(log_obs_bin_edges, e, sigma,
                         jb_offset(parameters, redshift, line_wavelengths, j)))

\* the weighted difference of the per-edge values at the edges of bin b
C5_BinValue(col, j, b) ==
    QMul(QSub(C5_EdgeValue(col, j, b + 1), C5_EdgeValue(col, j, b)),
         Q(obs_weights[b], obs_bin_edges[b + 1] - obs_bin_edges[b]))

C5_RunOf(j, inside) ==
    \A c \in 0..2 :
        \A k \in 0..(jb_ends[j] - jb_starts[j] - 1) :
            /\ inside => jb_starts[j] + k \in Bins
            /\ jb_starts[j] + k \in Bins =>
                  jb_dd[c * Len0(line_wavelengths) + j][k]
                  = C5_BinValue(<<"a", "v", "s">>[c + 1], j, jb_starts[j] + k)

C5_Stored == {j \in DOMAIN jb_window : jb_window[j] # <<>> /\ jb_window[j][3] = "stored"}

\* C5: for every line the Jacobian builder stored and each of its three
\* columns, entry k of the run [starts, ends) is the weighted difference of
\* the per-edge values at the two edges of output bin starts + k, one of the
\* bins lo-1 .. hi-1 build_emline_model adds the line to, with starts = lo - 1
\* if lo > 0 and starts = 0 if lo == 0; the slot of the undifferenced value
\* of edge hi is not in the run.
C5_RunsAreBinDerivatives ==
    \A j \in C5_Stored :
        /\ jb_starts[j] = (IF EdgesBelow(j) = 0 THEN 0 ELSE EdgesBelow(j) - 1)
        /\ jb_ends[j] - jb_starts[j]
           <= (IF EdgesBelow(j) = 0 THEN EdgesUpTo(j) ELSE EdgesUpTo(j) - EdgesBelow(j) + 1)
        /\ C5_RunOf(j, TRUE)

\* C6: once _matvec_J has run on the fragment the Jacobian builder returned
\* for a camera of e - s bins, every index j + starts[i] it wrote is in
\* [0, e - s): nothing was written past the output, and the rows behind the
\* camera's are as they were.
C6_WritesStayInCamera ==
    (jb_pc = "returned" /\ op_fwd = "done") =>
        /\ \A i \in DOMAIN op_J.starts :
              \A j \in 0..(op_J.ends[i] - op_J.starts[i] - 1) :
                  0 <= j + op_J.starts[i] /\ j + op_J.starts[i] < op_nbins
        /\ op_stray = {}
        /\ \A r \in DOMAIN op_w : r >= op_nbins => op_w[r] = QInt(jb_empty)

\* ------------------------------------------------------------------------
\* Malformed bin-edge input
\* ------------------------------------------------------------------------

\* some camera segment of centers_to_edges' input has fewer than 2 centers
C10_ShortSegment ==
    \E icam \in DOMAIN ce_camerapix :
        Len0(Slice0(ce_centers, ce_camerapix[icam][1], ce_camerapix[icam][2])) < 2

\* build_emline_model's bin edges are not strictly increasing
C10_NotIncreasing ==
    \E i \in 1..(Len0(obs_bin_edges) - 1) : obs_bin_edges[i - 1] >= obs_bin_edges[i]

\* C10: centers_to_edges does not return if a segment has fewer than 2
\* centers, and build_emline_model does not return if the bin edges are not
\* strictly increasing.
C10_MalformedNeverReturns ==
    /\ (ce_pc # "off" /\ C10_ShortSegment) => ce_pc # "returned"
    /\ (em_pc # "off" /\ C10_NotIncreasing) => em_pc # "returned"


\* ------------------------------------------------------------------------
\* Array accesses of build_emline_model
\* ------------------------------------------------------------------------

\* the lines whose loop body ran past the continue of line 138
C12_Added == {j \in DOMAIN em_window : em_window[j] # <<>> /\ em_window[j][3] = "added"}

\* nedges = hi - lo + 2 fits edge_vals
C12_ScratchFits(lo, hi) == hi - lo + 2 <= max_width(parameters, log_obs_bin_edges)

\* the indices i+lo-1 of log_obs_bin_edges, i in range(1, nedges-1), lie in [0, M]
C12_LogEdgeReads(lo, hi) ==
    \A i \in 1..(hi - lo) : 0 <= i + lo - 1 /\ i + lo - 1 <= Len0(obs_bin_edges) - 1

\* the indices i+lo of ibin_width, i in range(nedges-1), lie in [0, M]
C12_BinWidthReads(lo, hi) ==
    \A i \in 0..(hi - lo) : 0 <= i + lo /\ i + lo <= Len0(obs_bin_edges) - 1

\* model_fluxes[lo : hi+1] lies inside the M+2 entries of model_fluxes
C12_SliceInside(lo, hi) == 0 <= lo /\ hi + 1 <= Len0(obs_bin_edges) + 1

\* C12: for strictly increasing bin edges, every array access of every line
\* of build_emline_model is within bounds: nedges <= max_width, the reads of
\* log_obs_bin_edges and of ibin_width use indices in [0, M], and the slice
\* model_fluxes[lo : hi+1] lies inside model_fluxes.
C12_AccessesInBounds ==
    \A j \in C12_Added :
        LET lo == em_window[j][1]
            hi == em_window[j][2]
        IN  /\ C12_ScratchFits(lo, hi)
            /\ C12_LogEdgeReads(lo, hi)
            /\ C12_BinWidthReads(lo, hi)
            /\ C12_SliceInside(lo, hi)
\* ------------------------------------------------------------------------
\* Specifications: one per component; the other components are not called
\* ------------------------------------------------------------------------

RmIdle ==
    /\ rm_D = <<>>
    /\ rm_data = <<>>
    /\ rm_v = <<>>
    /\ rm_w = <<>>
    /\ rm_pc = "off"

CeIdle ==
    /\ ce_centers = <<>>
    /\ ce_camerapix = <<>>
    /\ ce_edges = <<>>
    /\ ce_icam = 0
    /\ ce_pc = "off"

OpIdle ==
    /\ op_J = <<>>
    /\ op_vFull = <<>>
    /\ op_u = <<>>
    /\ op_nbins = 0
    /\ op_w = <<>>
    /\ op_wT = <<>>
    /\ op_stray = {}
    /\ op_fwd = "off"
    /\ op_bwd = "off"

InIdle ==
    /\ parameters = <<>>
    /\ obs_bin_edges = <<>>
    /\ log_obs_bin_edges = <<>>
    /\ redshift = 0
    /\ line_wavelengths = <<>>
    /\ obs_weights = <<>>

EmIdle ==
    /\ em_j = 0
    /\ em_window = <<>>
    /\ em_model_fluxes = <<>>
    /\ em_past = <<>>
    /\ em_result = <<>>
    /\ em_pc = "off"

JbIdle ==
    /\ jb_j = 0
    /\ jb_window = <<>>
    /\ jb_starts = <<>>
    /\ jb_ends = <<>>
    /\ jb_dd = <<>>
    /\ jb_empty = 0
    /\ jb_past = <<>>
    /\ jb_pc = "off"

ObIdle ==
    /\ ob_args = <<>>
    /\ ob_parameters = <<>>
    /\ ob_free = <<>>
    /\ ob_residuals = <<>>
    /\ ob_seen = {}
    /\ ob_calls = 0

LinesIdle == InIdle /\ EmIdle /\ JbIdle

InitRes == RmInit /\ CeIdle /\ OpIdle /\ LinesIdle /\ ObIdle

SpecRes == InitRes /\ [][RmNext]_vars

InitEdges == CeInit /\ RmIdle /\ OpIdle /\ LinesIdle /\ ObIdle

SpecEdges == InitEdges /\ [][CeNext]_vars

InitJ == OpInit /\ RmIdle /\ CeIdle /\ LinesIdle /\ ObIdle

SpecJ == InitJ /\ [][OpNext]_vars

InitLines == InInit /\ EmInit /\ JbInit /\ RmIdle /\ CeIdle /\ OpIdle /\ ObIdle

NextLines ==
    \/ EmSkip \/ EmLine \/ EmReturn
    \/ JbCall \/ JbSkip \/ JbLine \/ JbReturn
    \/ OpMatvecJ

SpecLines == InitLines /\ [][NextLines]_vars

InitObjective == ObInit /\ RmIdle /\ CeIdle /\ OpIdle /\ LinesIdle

NextObjective == ObCall

SpecObjective == InitObjective /\ [][NextObjective]_vars

InitMalformed ==
    \/ CeInit /\ RmIdle /\ OpIdle /\ LinesIdle /\ ObIdle
    \/ InAnyInit /\ EmInit /\ JbIdle /\ RmIdle /\ CeIdle /\ OpIdle /\ ObIdle

NextMalformed ==
    \/ CeCamera \/ CeIndexError \/ CeReturn
    \/ EmZeroDivisionError \/ EmValueError
    \/ EmSkip \/ EmLine \/ EmOverflow \/ EmReturn

SpecMalformed == InitMalformed /\ [][NextMalformed]_vars

====
